---- MODULE Spec2Model ----
(***************************************************************************)
(* Model of main.py (Generatore Preventivi AbitaLab): the line pricing     *)
(* rule calcola_totale_voce, the currency formatter formatta_euro, the     *)
(* page-numbering canvas PageNumCanvas, the renderer                       *)
(* genera_pdf_preventivo and the handler genera_preventivo_endpoint.       *)
(*                                                                         *)
(* Numbers.  Python floats are modelled by exact fixed-point integers:     *)
(*   prezzo  in eighths of a euro   (prezzo = 3      means 0.375)          *)
(*   qta     in halves              (qta = 21        means 10.5)           *)
(*   products prezzo*qta and prezzo*pz in sixteenths of a euro             *)
(*   every rounded total in cents                                          *)
(*   the tax amount and the grand total as <<cents, hundredths of a cent>>.*)
(* Eighths, halves and sixteenths are binary fractions, so the float       *)
(* product the code computes is exact for them and round(x, 2) is the      *)
(* round-half-to-even of the exact value, which is what round2 computes.   *)
(*                                                                         *)
(* Text.  A str is a sequence of one-character strings, so that lower()    *)
(* and the substring test `marker in text` are computed, not assumed.      *)
(* Optional[T]: None is <<>>, a present value x is <<x>>.                  *)
(***************************************************************************)
EXTENDS Integers, Sequences, FiniteSets, TLC

VARIABLES
    voce,            \* calcola_totale_voce: the argument
    totale_voce,     \* calcola_totale_voce: <<>> before the call, <<cents>> after
    canvas,          \* the PageNumCanvas object
    k_showPage,      \* PageNumCanvas: showPage calls made by the caller so far
    pc,              \* genera_pdf_preventivo: position in the function
    preventivo,      \* genera_pdf_preventivo: the argument
    logo_status,     \* outcome of requests.get(logo_url, timeout=10)
    logo_element,    \* local logo_element
    n_fetch,         \* number of requests.get calls made
    elements,        \* local elements (the flowables)
    i_pos,           \* index of the position the for loop handles next
    subtotale_merce, \* local subtotale_merce, in cents
    imponibile,      \* local imponibile, in cents
    iva,             \* local iva, <<cents, hundredths of a cent>>
    totale_finale,   \* local totale_finale, <<cents, hundredths of a cent>>
    summary_data,    \* the three amounts shown in the totals block
    errore,          \* the exception raised to the caller, "" when none
    risultato,       \* the returned buffer: <<>> or the pages of the document
    risposta         \* genera_preventivo_endpoint: <<>> or <<the HTTP response>>

varsVoce == <<voce, totale_voce>>
varsCanvas == <<canvas, k_showPage>>
varsGenera == <<pc, preventivo, logo_status, logo_element, n_fetch, elements, i_pos,
                subtotale_merce, imponibile, iva, totale_finale, summary_data,
                errore, risultato, risposta>>
vars == <<varsVoce, varsCanvas, varsGenera>>

----------------------------------------------------------------------------
(* Optional values *)

None == <<>>
Some(x) == <<x>>
IsNone(o) == o = <<>>
Val(o) == o[1]

----------------------------------------------------------------------------
(* str: lower() and the `in` substring test *)

LowerChar(c) ==
    CASE c = "A" -> "a" [] c = "B" -> "b" [] c = "C" -> "c" [] c = "D" -> "d"
      [] c = "E" -> "e" [] c = "F" -> "f" [] c = "G" -> "g" [] c = "H" -> "h"
      [] c = "I" -> "i" [] c = "J" -> "j" [] c = "K" -> "k" [] c = "L" -> "l"
      [] c = "M" -> "m" [] c = "N" -> "n" [] c = "O" -> "o" [] c = "P" -> "p"
      [] c = "Q" -> "q" [] c = "R" -> "r" [] c = "S" -> "s" [] c = "T" -> "t"
      [] c = "U" -> "u" [] c = "V" -> "v" [] c = "W" -> "w" [] c = "X" -> "x"
      [] c = "Y" -> "y" [] c = "Z" -> "z" [] OTHER -> c

lower(s) == [i \in 1..Len(s) |-> LowerChar(s[i])]

\* Python: sub in s
contiene(sub, s) ==
    \E i \in 1..(Len(s) - Len(sub) + 1) : SubSeq(s, i, i + Len(sub) - 1) = sub

MARKER_PZ == <<"p", "z">>
MARKER_CORPO == <<"c", "o", "r", "p", "o">>
MARKER_MQ == <<"m", "q">>

\* Python: voce.um and marker in voce.um.lower()
\* (None and the empty string are both falsy)
um_contiene(um, marker) ==
    /\ ~IsNone(um)
    /\ Val(um) # <<>>
    /\ contiene(marker, lower(Val(um)))

----------------------------------------------------------------------------
(* round(x, 2) of a value given in sixteenths of a euro, in cents *)

\* n/d rounded to the nearest integer, ties to even (n >= 0, d > 0)
RoundHalfEven(n, d) ==
    LET q == n \div d
        r == n % d
    IN  IF 2 * r < d THEN q
        ELSE IF 2 * r > d THEN q + 1
        ELSE IF q % 2 = 0 THEN q ELSE q + 1

round2(x16) == 100 * (x16 \div 16) + RoundHalfEven(100 * (x16 % 16), 16)

----------------------------------------------------------------------------
(* calcola_totale_voce *)

SOGLIA_PREZZO == 10000
SOGLIA_QTA == 10

\* the float expressions of the code, in sixteenths of a euro
solo_prezzo(v) == 2 * Val(v.prezzo)
prezzo_per_pz(v) == 2 * Val(v.prezzo) * Val(v.pz)
prezzo_per_qta(v) == Val(v.prezzo) * Val(v.qta)

\* faulty variant of senza_prezzo: zero only when the quantity is absent too
senza_prezzo_se_manca_qta(v) ==
    IF IsNone(v.qta) THEN 0 ELSE round2(8 * Val(v.qta))

\* line 81
senza_prezzo(v) == 0

\* line 107: the statement after the if/elif chain
fallback(v) == round2(solo_prezzo(v))

\* faulty variant of ramo_pz: multiplies by the quantity
ramo_pz_usa_qta(v) ==
    IF ~IsNone(v.qta) THEN round2(prezzo_per_qta(v)) ELSE fallback(v)

\* lines 85-86: body of the 'pz' branch
ramo_pz(v) ==
    IF ~IsNone(v.pz) THEN round2(prezzo_per_pz(v)) ELSE fallback(v)

\* faulty variant of ramo_corpo: multiplies by the quantity
ramo_corpo_per_qta(v) ==
    IF ~IsNone(v.qta) THEN round2(prezzo_per_qta(v)) ELSE round2(solo_prezzo(v))

\* line 89: body of the 'corpo' branch
ramo_corpo(v) == round2(solo_prezzo(v))

\* faulty variant of ramo_mq: >= in place of >
ramo_mq_non_stretto(v) ==
    IF ~IsNone(v.qta)
    THEN IF Val(v.prezzo) >= 8 * SOGLIA_PREZZO /\ Val(v.qta) >= 2 * SOGLIA_QTA
         THEN round2(solo_prezzo(v))
         ELSE round2(prezzo_per_qta(v))
    ELSE fallback(v)

\* lines 92-100: body of the 'mq' branch
ramo_mq(v) ==
    IF ~IsNone(v.qta)
    THEN IF Val(v.prezzo) > 8 * SOGLIA_PREZZO /\ Val(v.qta) > 2 * SOGLIA_QTA
         THEN round2(solo_prezzo(v))
         ELSE round2(prezzo_per_qta(v))
    ELSE fallback(v)

\* faulty variant of ramo_altro: uses the piece-count when present
ramo_altro_usa_pz(v) ==
    IF ~IsNone(v.pz) THEN round2(prezzo_per_pz(v))
    ELSE IF ~IsNone(v.qta) THEN round2(prezzo_per_qta(v)) ELSE fallback(v)

\* lines 103-104: body of the else branch
ramo_altro(v) ==
    IF ~IsNone(v.qta) THEN round2(prezzo_per_qta(v)) ELSE fallback(v)

\* lines 78-107, result in cents
calcola_totale_voce(v) ==
    IF IsNone(v.prezzo) THEN senza_prezzo(v)
    ELSE IF um_contiene(v.um, MARKER_PZ) THEN ramo_pz(v)
    ELSE IF um_contiene(v.um, MARKER_CORPO) THEN ramo_corpo(v)
    ELSE IF um_contiene(v.um, MARKER_MQ) THEN ramo_mq(v)
    ELSE ramo_altro(v)

----------------------------------------------------------------------------
(* Inputs of calcola_totale_voce *)

\* unit-of-measure texts
UM_VUOTA == <<>>
UM_PZ == <<"p", "z">>
UM_PZ_MAIUSC == <<"P", "Z">>
UM_A_CORPO == <<"a", " ", "c", "o", "r", "p", "o">>
UM_A_CORPO_MAIUSC == <<"A", " ", "C", "o", "r", "p", "o">>
UM_MQ == <<"m", "q">>
UM_MQ_MAIUSC == <<"M", "Q">>
UM_ML == <<"m", "l">>
UM_KG == <<"k", "g">>
UM_PZ_A_CORPO == <<"p", "z", " ", "a", " ", "c", "o", "r", "p", "o">>
UM_MQ_A_CORPO == <<"m", "q", " ", "a", " ", "c", "o", "r", "p", "o">>
UM_MQ_PZ == <<"m", "q", "/", "p", "z">>

UmSet ==
    {None} \cup
    {Some(t) : t \in {UM_VUOTA, UM_PZ, UM_PZ_MAIUSC, UM_A_CORPO, UM_A_CORPO_MAIUSC,
                      UM_MQ, UM_MQ_MAIUSC, UM_ML, UM_KG, UM_PZ_A_CORPO,
                      UM_MQ_A_CORPO, UM_MQ_PZ}}

\* prices in eighths of a euro: 0.125, 0.25, 0.375, 800, 10000, 10000.125, 12000, 50000
PrezzoSet == {None} \cup {Some(p) : p \in {1, 2, 3, 6400, 80000, 80001, 96000, 400000}}

\* quantities in halves: 0, 0.5, 1.5, 10, 10.5, 15, 300
QtaSet == {None} \cup {Some(q) : q \in {0, 1, 3, 20, 21, 30, 600}}

PzSet == {None} \cup {Some(n) : n \in {0, 1, 3}}

VoceSet == [pz : PzSet, qta : QtaSet, um : UmSet, prezzo : PrezzoSet]

----------------------------------------------------------------------------
(* formatta_euro.  An amount is <<c, f>>: c cents and f hundredths of a   *)
(* cent (0..99); a value that is already a whole number of cents is       *)
(* <<c, 0>>.                                                              *)

\* the rounding of the format specification .2f : nearest cent, ties to even
arrotonda_centesimi(v) ==
    IF v[2] < 50 THEN v[1]
    ELSE IF v[2] > 50 THEN v[1] + 1
    ELSE IF v[1] % 2 = 0 THEN v[1] ELSE v[1] + 1

CIFRE == <<"0", "1", "2", "3", "4", "5", "6", "7", "8", "9">>

RECURSIVE cifre(_)
cifre(n) == IF n < 10 THEN <<CIFRE[n + 1]>>
            ELSE cifre(n \div 10) \o <<CIFRE[(n % 10) + 1]>>

due_cifre(n) == <<CIFRE[(n \div 10) + 1], CIFRE[(n % 10) + 1]>>
tre_cifre(n) == <<CIFRE[(n \div 100) + 1]>> \o due_cifre(n % 100)

\* the ',' option of the format specification: groups of three digits
RECURSIVE migliaia(_)
migliaia(n) == IF n < 1000 THEN cifre(n)
               ELSE migliaia(n \div 1000) \o <<",">> \o tre_cifre(n % 1000)

\* f"{valore:,.2f} EUR" for valore >= 0
formato_2f(v) ==
    LET c == arrotonda_centesimi(v)
    IN  migliaia(c \div 100) \o <<".">> \o due_cifre(c % 100) \o <<" ", "€">>

\* str.replace(a, b) for one-character a and b
replace(s, a, b) == [i \in 1..Len(s) |-> IF s[i] = a THEN b ELSE s[i]]

formatta_euro(v) ==
    replace(replace(replace(formato_2f(v), ",", "X"), ".", ","), "X", ".")

----------------------------------------------------------------------------
(* PageNumCanvas.  The canvas is a record:                                 *)
(*   pages        self.pages, the recorded snapshots of self.__dict__      *)
(*   _pageNumber  number of the page being drawn (the base class starts    *)
(*                at 1 and _startPage adds 1)                              *)
(*   _code        drawing operations of the page being drawn               *)
(*   doc_pages    the pages added to the PDF document, in order            *)
(*   saved        the document was written                                 *)
(* A drawing operation is <<name, a, b>>.                                  *)

MaxPagine == 3
MaxDisegni == 1

\* lines 134-136
nuovo_canvas ==
    [pages |-> <<>>, _pageNumber |-> 1, _code |-> <<>>, doc_pages |-> <<>>,
     saved |-> FALSE]

\* any drawing call of the base class
disegna(c, op) == [c EXCEPT !._code = Append(@, op)]

\* Canvas._startPage
startPage(c) == [c EXCEPT !._pageNumber = @ + 1, !._code = <<>>]

\* Canvas.showPage: adds the page to the document, then _startPage
Canvas_showPage(c) == startPage([c EXCEPT !.doc_pages = Append(@, c._code)])

\* lines 138-140
showPage(c) ==
    startPage([c EXCEPT !.pages =
        Append(@, [_pageNumber |-> c._pageNumber, _code |-> c._code])])

\* faulty variant of ripristina: the page number is not restored
ripristina_solo_code(c, page) == [c EXCEPT !._code = page._code]

\* line 145: self.__dict__.update(page)
ripristina(c, page) ==
    [c EXCEPT !._pageNumber = page._pageNumber, !._code = page._code]

\* lines 150-152
draw_page_number(c, page_count) ==
    disegna(c, <<"Pagina", c._pageNumber, page_count>>)

\* lines 144-147: the loop over self.pages, from index j on
RECURSIVE ristampa(_, _, _)
ristampa(c, j, page_count) ==
    IF j > Len(c.pages) THEN c
    ELSE ristampa(Canvas_showPage(draw_page_number(ripristina(c, c.pages[j]),
                                                   page_count)),
                  j + 1, page_count)

\* Canvas.save: a page with pending operations is closed with self.showPage()
Canvas_save(c) ==
    [(IF Len(c._code) > 0 THEN showPage(c) ELSE c) EXCEPT !.saved = TRUE]

\* lines 142-148
save(c) == Canvas_save(ristampa(c, 1, Len(c.pages)))

OperazioniDisegno == {<<"testo", 1, 0>>, <<"testo", 2, 0>>}

CanvasFermo == nuovo_canvas

----------------------------------------------------------------------------
(* genera_pdf_preventivo *)

MaxPos == 2
MaxRighe == 4

\* line items of the quotations: 800 x 300 mq, 50000 a corpo, 0.25 with no unit
VOCE_MQ == [pz |-> None, qta |-> Some(600), um |-> Some(UM_MQ), prezzo |-> Some(6400)]
VOCE_CORPO == [pz |-> Some(1), qta |-> Some(2), um |-> Some(UM_A_CORPO),
               prezzo |-> Some(400000)]
VOCE_ALTRO == [pz |-> None, qta |-> None, um |-> None, prezzo |-> Some(2)]

VociPreventivo == {VOCE_MQ, VOCE_CORPO, VOCE_ALTRO}

\* tax percentages: the default 22.0 and 50.0
IVA_DEFAULT == 22
IvaSet == {IVA_DEFAULT, 50}

ListeVoci(r) == UNION {[1..n -> VociPreventivo] : n \in 0..r}

\* the lists of p positions holding at most r line items in all
RECURSIVE ListeVociPosizioni(_, _)
ListeVociPosizioni(p, r) ==
    IF p = 0 THEN {<<>>}
    ELSE UNION {{<<vs>> \o resto : resto \in ListeVociPosizioni(p - 1, r - Len(vs))} :
                vs \in ListeVoci(r)}

Posizioni(l) == [i \in 1..Len(l) |-> [numero |-> i, voci |-> l[i]]]

\* faulty variant of totale_posizione: the last line item is left out
RECURSIVE totale_posizione_senza_ultima(_)
totale_posizione_senza_ultima(voci) ==
    IF Len(voci) <= 1 THEN 0
    ELSE calcola_totale_voce(Head(voci)) + totale_posizione_senza_ultima(Tail(voci))

\* lines 270-277: totale_posizione = 0, then += calcola_totale_voce(voce)
RECURSIVE totale_posizione(_)
totale_posizione(voci) ==
    IF voci = <<>> THEN 0
    ELSE calcola_totale_voce(Head(voci)) + totale_posizione(Tail(voci))

\* line 297: subtotale_merce += totale_posizione
accumula(subtotale, totale) == subtotale + totale

\* line 344: imponibile * (iva_percentuale / 100.0)
calcola_iva(imp, perc) ==
    LET a == imp \div 100
        b == imp % 100
    IN  <<a * perc + ((b * perc) \div 100), (b * perc) % 100>>

\* line 345: imponibile + iva
calcola_totale_finale(imp, tassa) == <<imp + tassa[1], tassa[2]>>

\* The float product of line 344 is exact when the percentage is a binary
\* fraction of 100 (50.0); with 22.0 it is not, and it agrees with the exact
\* value after formatting unless the exact tax falls on a half cent.  The
\* quotations of the model are those for which the exact arithmetic gives
\* what the floats give.
RECURSIVE somma_posizioni(_)
somma_posizioni(l) ==
    IF l = <<>> THEN 0 ELSE totale_posizione(Head(l)) + somma_posizioni(Tail(l))

AritmeticaEsatta(l, perc) ==
    perc = 50 \/ calcola_iva(somma_posizioni(l), perc)[2] # 50

PreventivoSet ==
    {[posizioni |-> Posizioni(l), iva_percentuale |-> perc] :
        <<l, perc>> \in {x \in (UNION {ListeVociPosizioni(p, MaxRighe) : p \in 0..MaxPos})
                                \X IvaSet : AritmeticaEsatta(x[1], x[2])}}

\* lines 193-213: what logo_element is after the fetch
EsitiLogo == {"200", "404", "Timeout", "ConnectionError"}

logo_da_esito(esito) == IF esito = "200" THEN "Image" ELSE "Paragraph"

El(tipo, dati) == [tipo |-> tipo, dati |-> dati]

\* lines 215-262
intestazione(logo) ==
    << El("header_table", <<logo>>), El("Spacer", <<>>),
       El("info_table", <<>>), El("Spacer", <<>>),
       El("intro", <<>>), El("Spacer", <<>>) >>

\* lines 268-306: table_data of one position
riga_intestazione == [tipo |-> "intestazione", pos_num |-> None, totale |-> <<>>]

riga_voce(pos, j) ==
    [tipo |-> "voce",
     pos_num |-> IF j = 1 THEN Some(pos.numero) ELSE None,
     totale |-> formatta_euro(<<calcola_totale_voce(pos.voci[j]), 0>>)]

riga_totale(pos) ==
    [tipo |-> "totale", pos_num |-> None,
     totale |-> formatta_euro(<<totale_posizione(pos.voci), 0>>)]

table_data(pos) ==
    <<riga_intestazione>> \o [j \in 1..Len(pos.voci) |-> riga_voce(pos, j)]
        \o <<riga_totale(pos)>>

\* lines 315-337: the list given to TableStyle; a command is
\* <<name, <<col, row>>, <<col, row>>>>, the conditional entry is None
\* when the position has at most one line
stile_tabella(n) ==
    << <<"BACKGROUND", <<0, 0>>, <<-1, 0>>>>,
       <<"TEXTCOLOR", <<0, 0>>, <<-1, 0>>>>,
       <<"FONTNAME", <<0, 0>>, <<-1, 0>>>>,
       <<"FONTSIZE", <<0, 0>>, <<-1, -1>>>>,
       <<"ALIGN", <<0, 0>>, <<-1, 0>>>>,
       <<"VALIGN", <<0, 0>>, <<-1, -1>>>>,
       <<"ALIGN", <<2, 1>>, <<4, -1>>>>,
       <<"ALIGN", <<5, 1>>, <<-1, -1>>>>,
       <<"BOX", <<0, 0>>, <<-1, -1>>>>,
       <<"INNERGRID", <<0, 0>>, <<-1, -1>>>>,
       IF n > 1 THEN <<"SPAN", <<0, 1>>, <<0, -2>>>> ELSE None,
       <<"SPAN", <<1, -1>>, <<5, -1>>>>,
       <<"LINEABOVE", <<0, -1>>, <<-1, -1>>>> >>

\* Table.setStyle reads cmd[0] of every entry: None raises TypeError
setStyle_riesce(stile) == \A k \in 1..Len(stile) : stile[k] # None

\* lines 381-390: two titles, their paragraphs and the Spacer between them
legal_elements ==
    << El("LegalTitle", <<"Condizioni Generali">>),
       El("LegalBody", <<"Validita' dell'offerta">>),
       El("LegalBody", <<"Condizioni di pagamento">>),
       El("LegalBody", <<"Tempi di consegna">>),
       El("LegalBody", <<"Note">>),
       El("Spacer", <<>>),
       El("LegalTitle", <<"Trattamento dei dati personali">>),
       El("LegalBody", <<"Ai sensi del Reg. UE n. 679/2016 (GDPR)">>) >>

\* faulty variant of chiusura: the legal text is put before the totals and
\* the page break comes last
chiusura_legale_prima ==
    legal_elements \o
    << El("summary_table", <<>>), El("Spacer", <<>>),
       El("firma", <<>>), El("Spacer", <<>>),
       El("signature_line", <<>>), El("PageBreak", <<>>) >>

\* lines 365-391
chiusura ==
    << El("summary_table", <<>>), El("Spacer", <<>>),
       El("firma", <<>>), El("Spacer", <<>>),
       El("signature_line", <<>>), El("PageBreak", <<>>) >>
    \o legal_elements

\* line 394: doc.build(elements, canvasmaker=PageNumCanvas) laying the
\* flowables out on k pages: each page is drawn, then closed with showPage;
\* at the end the canvas is saved
RECURSIVE impagina(_, _, _)
impagina(c, j, k) ==
    IF j > k THEN c
    ELSE impagina(showPage(disegna(c, <<"testo", j, 0>>)), j + 1, k)

build(k) == save(impagina(nuovo_canvas, 1, k))

\* lines 511-514: StreamingResponse(pdf_buffer, media_type="application/pdf")
risposta_pdf(buffer) ==
    [status |-> 200, media_type |-> "application/pdf", body |-> buffer, detail |-> <<>>]

\* faulty variant of risposta_errore: the pages laid out so far are sent
risposta_errore_parziale(e, pagine) ==
    [status |-> 200, media_type |-> "application/pdf",
     body |-> [i \in 1..Len(pagine) |-> pagine[i]._code], detail |-> <<>>]

\* lines 515-517: HTTPException(status_code=500, detail=f"Errore ...: {str(e)}")
risposta_errore(e, pagine) ==
    [status |-> 500, media_type |-> "application/json", body |-> <<>>,
     detail |-> <<"Errore nella generazione del PDF: ", e>>]

----------------------------------------------------------------------------
(* States of the parts a specification leaves alone *)

VoceFerma == /\ voce = [pz |-> None, qta |-> None, um |-> None, prezzo |-> None]
             /\ totale_voce = None

CanvasNonUsato == /\ canvas = CanvasFermo
                  /\ k_showPage = 0

GeneraFermo ==
    /\ pc = "idle"
    /\ preventivo = [posizioni |-> <<>>, iva_percentuale |-> IVA_DEFAULT]
    /\ logo_status = ""
    /\ logo_element = "None"
    /\ n_fetch = 0
    /\ elements = <<>>
    /\ i_pos = 1
    /\ subtotale_merce = 0
    /\ imponibile = 0
    /\ iva = <<0, 0>>
    /\ totale_finale = <<0, 0>>
    /\ summary_data = <<>>
    /\ errore = ""
    /\ risultato = <<>>
    /\ risposta = None

----------------------------------------------------------------------------
(* SpecVoce: calcola_totale_voce applied to every line item of VoceSet *)

InitVoce ==
    /\ voce \in VoceSet
    /\ totale_voce = None
    /\ CanvasNonUsato
    /\ GeneraFermo

Calcola ==
    /\ IsNone(totale_voce)
    /\ totale_voce' = Some(calcola_totale_voce(voce))
    /\ UNCHANGED <<voce, varsCanvas, varsGenera>>

NextVoce == Calcola

SpecVoce == InitVoce /\ [][NextVoce]_vars

----------------------------------------------------------------------------
(* SpecCanvas: a PageNumCanvas driven by its caller: drawing calls,        *)
(* showPage calls, then one save.                                          *)

InitCanvas ==
    /\ canvas = nuovo_canvas
    /\ k_showPage = 0
    /\ VoceFerma
    /\ GeneraFermo

Disegna ==
    /\ ~canvas.saved
    /\ Len(canvas._code) < MaxDisegni
    /\ \E op \in OperazioniDisegno : canvas' = disegna(canvas, op)
    /\ UNCHANGED <<k_showPage, varsVoce, varsGenera>>

ShowPage ==
    /\ ~canvas.saved
    /\ k_showPage < MaxPagine
    /\ canvas' = showPage(canvas)
    /\ k_showPage' = k_showPage + 1
    /\ UNCHANGED <<varsVoce, varsGenera>>

Save ==
    /\ ~canvas.saved
    /\ canvas' = save(canvas)
    /\ UNCHANGED <<k_showPage, varsVoce, varsGenera>>

NextCanvas == Disegna \/ ShowPage \/ Save

SpecCanvas == InitCanvas /\ [][NextCanvas]_vars

----------------------------------------------------------------------------
(* Spec: one request to genera_preventivo_endpoint, which calls            *)
(* genera_pdf_preventivo                                                   *)

Init ==
    /\ preventivo \in PreventivoSet
    /\ pc = "logo"
    /\ logo_status = ""
    /\ logo_element = "None"
    /\ n_fetch = 0
    /\ elements = <<>>
    /\ i_pos = 1
    /\ subtotale_merce = 0
    /\ imponibile = 0
    /\ iva = <<0, 0>>
    /\ totale_finale = <<0, 0>>
    /\ summary_data = <<>>
    /\ errore = ""
    /\ risultato = <<>>
    /\ risposta = None
    /\ VoceFerma
    /\ CanvasNonUsato

\* lines 189-265: the logo fetch with its fallback, the header, the info
\* block and the introductory sentence
FetchLogo ==
    /\ pc = "logo"
    /\ \E esito \in EsitiLogo :
          /\ logo_status' = esito
          /\ logo_element' = logo_da_esito(esito)
          /\ elements' = elements \o intestazione(logo_da_esito(esito))
    /\ n_fetch' = n_fetch + 1
    /\ subtotale_merce' = 0
    /\ pc' = "posizioni"
    /\ UNCHANGED <<preventivo, i_pos, imponibile, iva, totale_finale, summary_data,
                   errore, risultato, risposta, varsVoce, varsCanvas>>

\* lines 267-340: one iteration of the loop over preventivo.posizioni
Posizione ==
    /\ pc = "posizioni"
    /\ i_pos <= Len(preventivo.posizioni)
    /\ LET pos == preventivo.posizioni[i_pos]
           stile == stile_tabella(Len(pos.voci))
           tabella == El("Table", <<i_pos, table_data(pos), stile>>)
       IN  /\ subtotale_merce' = accumula(subtotale_merce, totale_posizione(pos.voci))
           /\ IF setStyle_riesce(stile)
              THEN /\ elements' = elements \o <<tabella, El("Spacer", <<>>)>>
                   /\ i_pos' = i_pos + 1
                   /\ UNCHANGED <<pc, errore>>
              ELSE /\ pc' = "raised"
                   /\ errore' = "TypeError"
                   /\ UNCHANGED <<elements, i_pos>>
    /\ UNCHANGED <<preventivo, logo_status, logo_element, n_fetch, imponibile, iva,
                   totale_finale, summary_data, risultato, risposta, varsVoce,
                   varsCanvas>>

\* lines 342-391: the totals block, the signature, the page break, the legal text
Totali ==
    /\ pc = "posizioni"
    /\ i_pos > Len(preventivo.posizioni)
    /\ LET imp == subtotale_merce
           tassa == calcola_iva(imp, preventivo.iva_percentuale)
           tot == calcola_totale_finale(imp, tassa)
       IN  /\ imponibile' = imp
           /\ iva' = tassa
           /\ totale_finale' = tot
           /\ summary_data' = <<formatta_euro(<<imp, 0>>), formatta_euro(tassa),
                                formatta_euro(tot)>>
    /\ elements' = elements \o chiusura
    /\ pc' = "build"
    /\ UNCHANGED <<preventivo, logo_status, logo_element, n_fetch, i_pos,
                   subtotale_merce, errore, risultato, risposta, varsVoce,
                   varsCanvas>>

\* lines 393-396: the document is built on k pages and the buffer returned
Build ==
    /\ pc = "build"
    /\ \E k \in 2..MaxPagine :
          /\ canvas' = build(k)
          /\ risultato' = build(k).doc_pages
    /\ pc' = "done"
    /\ UNCHANGED <<k_showPage, preventivo, logo_status, logo_element, n_fetch, elements,
                   i_pos, subtotale_merce, imponibile, iva, totale_finale,
                   summary_data, errore, risposta, varsVoce>>

\* line 394: doc.build raises while laying out (a flowable that fits no
\* page) after j pages were recorded; nothing was saved to the buffer
BuildFallisce ==
    /\ pc = "build"
    /\ \E j \in 0..(MaxPagine - 1) : canvas' = impagina(nuovo_canvas, 1, j)
    /\ pc' = "raised"
    /\ errore' = "LayoutError"
    /\ UNCHANGED <<k_showPage, preventivo, logo_status, logo_element, n_fetch, elements,
                   i_pos, subtotale_merce, imponibile, iva, totale_finale,
                   summary_data, risultato, risposta, varsVoce>>

\* lines 506-518: genera_preventivo_endpoint, once genera_pdf_preventivo
\* has returned or raised
Endpoint ==
    /\ IsNone(risposta)
    /\ pc \in {"done", "raised"}
    /\ risposta' = Some(IF pc = "done" THEN risposta_pdf(risultato)
                        ELSE risposta_errore(errore, canvas.pages))
    /\ UNCHANGED <<pc, preventivo, logo_status, logo_element, n_fetch, elements, i_pos,
                   subtotale_merce, imponibile, iva, totale_finale, summary_data,
                   errore, risultato, varsVoce, varsCanvas>>

Next == FetchLogo \/ Posizione \/ Totali \/ Build \/ BuildFallisce \/ Endpoint

Spec == Init /\ [][Next]_vars

----------------------------------------------------------------------------
(* Claims about calcola_totale_voce, checked under SpecVoce *)

Calcolato == ~IsNone(totale_voce)
HaPrezzo == ~IsNone(voce.prezzo)
HaMarker(m) == um_contiene(voce.um, m)

\* what the default rule (step 5) gives: price x quantity when quantity is
\* present, the price alone otherwise, rounded to 2 decimals
RegolaDefault ==
    IF ~IsNone(voce.qta) THEN round2(Val(voce.prezzo) * Val(voce.qta))
    ELSE round2(2 * Val(voce.prezzo))

\* C1 (as stated): a present price and a unit of measure containing 'corpo'
\* give round(price, 2), whatever piece-count, quantity and the rest of the
\* unit-of-measure text are.
C1_CorpoSempre ==
    (Calcolato /\ HaPrezzo /\ HaMarker(MARKER_CORPO))
        => Val(totale_voce) = round2(2 * Val(voce.prezzo))

\* C1 (amended): a present price and a unit of measure containing 'corpo'
\* give round(price, 2) whatever the quantity is, unless the text also
\* contains 'pz' and the piece-count is present (then the piece rule wins).
C1_CorpoSalvoPz ==
    (/\ Calcolato /\ HaPrezzo /\ HaMarker(MARKER_CORPO)
     /\ ~(HaMarker(MARKER_PZ) /\ ~IsNone(voce.pz)))
        => Val(totale_voce) = round2(2 * Val(voce.prezzo))

C1_Witness ==
    /\ Calcolato
    /\ voce.um = Some(UM_A_CORPO_MAIUSC)
    /\ voce.prezzo = Some(3) /\ voce.qta = Some(30) /\ voce.pz = Some(3)
    /\ Val(totale_voce) = 38

\* C2: a present price, a unit of measure containing 'pz' and an absent
\* piece-count give the default rule: round(price x quantity, 2) when the
\* quantity is present, round(price, 2) only when it is absent.
C2_PzSenzaPezzi ==
    (Calcolato /\ HaPrezzo /\ HaMarker(MARKER_PZ) /\ IsNone(voce.pz))
        => Val(totale_voce) = RegolaDefault

\* C3: an absent price gives exactly 0, whatever the other fields are.
C3_SenzaPrezzoZero ==
    (Calcolato /\ ~HaPrezzo) => Val(totale_voce) = 0

C3_Witness ==
    /\ Calcolato /\ ~HaPrezzo
    /\ voce.qta = Some(30) /\ voce.pz = Some(3) /\ voce.um = Some(UM_PZ)

\* C4: a present price, a present piece-count and a unit of measure
\* containing 'pz' (in any letter case) give round(price x piece-count, 2),
\* independent of the quantity.
C4_PzPerPezzi ==
    (Calcolato /\ HaPrezzo /\ ~IsNone(voce.pz) /\ HaMarker(MARKER_PZ))
        => Val(totale_voce) = round2(2 * Val(voce.prezzo) * Val(voce.pz))

C4_Witness ==
    /\ Calcolato
    /\ voce.um = Some(UM_PZ_MAIUSC)
    /\ voce.prezzo = Some(1) /\ voce.pz = Some(3) /\ voce.qta = Some(21)
    /\ Val(totale_voce) = 38

\* C5: present price and quantity, a unit of measure containing 'mq' and
\* neither 'pz' nor 'corpo': round(price, 2) exactly when price > 10000 and
\* quantity > 10 (both strict), round(price x quantity, 2) otherwise;
\* (12000, 15) gives 12000.00 and (800, 300) gives 240000.00.
C5_MqEuristica ==
    (/\ Calcolato /\ HaPrezzo /\ ~IsNone(voce.qta)
     /\ HaMarker(MARKER_MQ) /\ ~HaMarker(MARKER_PZ) /\ ~HaMarker(MARKER_CORPO))
        => /\ Val(totale_voce) =
                IF Val(voce.prezzo) > 8 * 10000 /\ Val(voce.qta) > 2 * 10
                THEN round2(2 * Val(voce.prezzo))
                ELSE round2(Val(voce.prezzo) * Val(voce.qta))
           /\ (voce.prezzo = Some(8 * 12000) /\ voce.qta = Some(2 * 15))
                => Val(totale_voce) = 1200000
           /\ (voce.prezzo = Some(8 * 800) /\ voce.qta = Some(2 * 300))
                => Val(totale_voce) = 24000000

\* the boundary: price exactly 10000 with quantity 15 is a unit price
C5_Witness ==
    /\ Calcolato
    /\ voce.um = Some(UM_MQ_MAIUSC)
    /\ voce.prezzo = Some(8 * 10000) /\ voce.qta = Some(2 * 15)
    /\ Val(totale_voce) = 15000000

\* C6: a present price and a unit of measure that is absent, empty or
\* contains none of 'pz', 'corpo', 'mq' give round(price x quantity, 2) when
\* the quantity is present and round(price, 2) when it is absent; the
\* piece-count never matters.
C6_AltreUnita ==
    (/\ Calcolato /\ HaPrezzo
     /\ ~HaMarker(MARKER_PZ) /\ ~HaMarker(MARKER_CORPO) /\ ~HaMarker(MARKER_MQ))
        => Val(totale_voce) = RegolaDefault

C6_Witness ==
    /\ Calcolato
    /\ voce.um = Some(UM_VUOTA)
    /\ voce.prezzo = Some(3) /\ voce.qta = Some(3) /\ voce.pz = Some(3)
    /\ Val(totale_voce) = 56

----------------------------------------------------------------------------
(* Claims about genera_pdf_preventivo, checked under Spec *)

\* the sum of calcola_totale_voce over the line items of one position
RECURSIVE SommaVoci(_, _)
SommaVoci(voci, n) ==
    IF n = 0 THEN 0 ELSE SommaVoci(voci, n - 1) + calcola_totale_voce(voci[n])

\* the sum of the position totals of the first n positions
RECURSIVE SommaPosizioni(_, _)
SommaPosizioni(posizioni, n) ==
    IF n = 0 THEN 0
    ELSE SommaPosizioni(posizioni, n - 1)
            + SommaVoci(posizioni[n].voci, Len(posizioni[n].voci))

TotaliCalcolati == pc \in {"build", "done"}

Tabelle == {e \in 1..Len(elements) : elements[e].tipo = "Table"}

UltimaRiga(e) == LET righe == elements[e].dati[2] IN righe[Len(righe)]

EsempioSpec == Posizioni(<< <<VOCE_MQ, VOCE_CORPO>> >>)

Str_290000 == <<"2", "9", "0", ".", "0", "0", "0", ",", "0", "0", " ", "€">>

\* C7: the total shown in the 'Totale Posizione' row of every position's
\* table is the sum of calcola_totale_voce over that position's line items
\* alone, and the subtotal (imponibile) is the sum of the position totals
\* over all positions; one position with lines 240000.00 and 50000.00 gives
\* position total and subtotal 290000.00.
C7_TotaliPosizioneESubtotale ==
    /\ \A e \in Tabelle :
          LET voci == preventivo.posizioni[elements[e].dati[1]].voci
          IN  /\ UltimaRiga(e).tipo = "totale"
              /\ UltimaRiga(e).totale = formatta_euro(<<SommaVoci(voci, Len(voci)), 0>>)
    /\ pc = "posizioni" =>
          subtotale_merce = SommaPosizioni(preventivo.posizioni, i_pos - 1)
    /\ TotaliCalcolati =>
          /\ imponibile = SommaPosizioni(preventivo.posizioni, Len(preventivo.posizioni))
          /\ summary_data[1] = formatta_euro(<<imponibile, 0>>)
    /\ (TotaliCalcolati /\ preventivo.posizioni = EsempioSpec) =>
          /\ imponibile = 29000000
          /\ \A e \in Tabelle : UltimaRiga(e).totale = Str_290000

\* two positions: the second total does not include the first
C7_Witness ==
    /\ pc = "done"
    /\ preventivo.posizioni = Posizioni(<< <<VOCE_MQ, VOCE_CORPO>>,
                                           <<VOCE_ALTRO, VOCE_ALTRO>> >>)
    /\ UltimaRiga(7).totale = Str_290000
    /\ UltimaRiga(9).totale = <<"0", ",", "5", "0", " ", "€">>
    /\ imponibile = 29000050

\* C8: the grand total shown in the totals block is the subtotal shown plus
\* the tax amount shown (the tax rounded to 2 decimals), for every subtotal
\* and tax percentage.
C8_TotaleUgualeSommaMostrata ==
    TotaliCalcolati =>
        /\ summary_data[1] = formatta_euro(<<imponibile, 0>>)
        /\ summary_data[2] = formatta_euro(<<arrotonda_centesimi(iva), 0>>)
        /\ summary_data[3] = formatta_euro(<<imponibile + arrotonda_centesimi(iva), 0>>)

\* C10: whatever the logo fetch gives, logo_element is a renderable element
\* (the image on status 200 only, the text fallback otherwise), the fetch is
\* made once, its failure is not raised, and the function goes on to return
\* a document.
C10_LogoEDocumento ==
    /\ pc \notin {"idle", "logo"} =>
          /\ n_fetch = 1
          /\ logo_element \in {"Image", "Paragraph"}
          /\ (logo_element = "Image") <=> (logo_status = "200")
          /\ elements[1] = El("header_table", <<logo_element>>)
    /\ errore = ""
    /\ pc = "done" => risultato # <<>>

----------------------------------------------------------------------------
(* Claims about PageNumCanvas, checked under SpecCanvas *)

\* C9: after k showPage calls and one save, no page was added to the
\* document before save, save adds exactly k pages, the recorded pages once
\* each and in the order recorded, and the i-th page carries the stamp
\* 'Pagina i di k'.
C9_PagineNumerate ==
    /\ ~canvas.saved => canvas.doc_pages = <<>>
    /\ canvas.saved =>
          /\ Len(canvas.doc_pages) = k_showPage
          /\ \A i \in 1..k_showPage :
                canvas.doc_pages[i] =
                    Append(canvas.pages[i]._code, <<"Pagina", i, k_showPage>>)

C9_Witness ==
    /\ canvas.saved
    /\ k_showPage = 3
    /\ canvas.doc_pages = << <<<<"testo", 1, 0>>, <<"Pagina", 1, 3>>>>,
                             <<<<"Pagina", 2, 3>>>>,
                             <<<<"testo", 2, 0>>, <<"Pagina", 3, 3>>>> >>

----------------------------------------------------------------------------
(* Claims about genera_preventivo_endpoint, checked under Spec *)

\* the pages of a finished document: every recorded page, in order, each
\* with its stamp
DocumentoCompleto(doc) ==
    /\ canvas.saved
    /\ Len(doc) >= 1
    /\ Len(doc) = Len(canvas.pages)
    /\ \A i \in 1..Len(doc) :
          doc[i] = Append(canvas.pages[i]._code, <<"Pagina", i, Len(doc)>>)

\* C11: a request has one of two outcomes. Either rendering completed and
\* the response is 200, application/pdf, with the complete document as its
\* body; or something raised during aggregation or layout and the response
\* is 500 with the diagnostic message and no document bytes. The buffer
\* never holds a partly built document, and none is ever sent.
C11_DocumentoCompletoOErrore ==
    /\ risultato # <<>> => DocumentoCompleto(risultato)
    /\ ~IsNone(risposta) =>
          \/ /\ pc = "done"
             /\ errore = ""
             /\ Val(risposta).status = 200
             /\ Val(risposta).media_type = "application/pdf"
             /\ DocumentoCompleto(Val(risposta).body)
          \/ /\ pc = "raised"
             /\ errore # ""
             /\ Val(risposta).status = 500
             /\ Val(risposta).body = <<>>
             /\ Val(risposta).detail = <<"Errore nella generazione del PDF: ", errore>>

\* layout raised after two pages were recorded, and the 500 response
\* carries none of them
C11_Witness ==
    /\ ~IsNone(risposta)
    /\ errore = "LayoutError"
    /\ Len(canvas.pages) = 2
    /\ Val(risposta).status = 500
    /\ Val(risposta).body = <<>>

\* the other outcome: a three-page document sent whole
C11_WitnessPdf ==
    /\ ~IsNone(risposta)
    /\ Val(risposta).status = 200
    /\ Len(Val(risposta).body) = 3

----------------------------------------------------------------------------
(* Claims about the flowable list of genera_pdf_preventivo, under Spec *)

\* doc.build was called with elements
Consegnata == pc \in {"build", "done"} \/ errore = "LayoutError"

NonSpacer(e) == e.tipo # "Spacer"

Indici(tipi) == {e \in 1..Len(elements) : elements[e].tipo \in tipi}

\* C12: the list handed to doc.build is, Spacers apart: the header table,
\* the info table, the introductory sentence, one table per position in
\* input order (the i-th built from the i-th position), the totals block,
\* the signature caption and line, one PageBreak, and the legal
\* paragraphs; the totals block comes after every position table and all
\* legal text after the only page break.
C12_OrdineElementi ==
    Consegnata =>
        LET n == Len(preventivo.posizioni)
            blocchi == SelectSeq(elements, NonSpacer)
        IN  /\ Len(blocchi) = 3 + n + 4 + 7
            /\ blocchi[1].tipo = "header_table"
            /\ blocchi[2].tipo = "info_table"
            /\ blocchi[3].tipo = "intro"
            /\ \A i \in 1..n :
                  /\ blocchi[3 + i].tipo = "Table"
                  /\ blocchi[3 + i].dati[1] = i
                  /\ blocchi[3 + i].dati[2] = table_data(preventivo.posizioni[i])
            /\ blocchi[n + 4].tipo = "summary_table"
            /\ blocchi[n + 5].tipo = "firma"
            /\ blocchi[n + 6].tipo = "signature_line"
            /\ blocchi[n + 7].tipo = "PageBreak"
            /\ \A j \in (n + 8)..(n + 14) :
                  blocchi[j].tipo \in {"LegalTitle", "LegalBody"}
            /\ Cardinality(Indici({"PageBreak"})) = 1
            /\ Cardinality(Indici({"summary_table"})) = 1
            /\ Cardinality(Indici({"Table"})) = n
            /\ \A t \in Indici({"Table"}), u \in Indici({"summary_table"}) : t < u
            /\ \A b \in Indici({"PageBreak"}), l \in Indici({"LegalTitle", "LegalBody"}) :
                  b < l

\* a document of two different positions was built
C12_Witness ==
    /\ pc = "done"
    /\ Len(preventivo.posizioni) = 2
    /\ preventivo.posizioni[1].voci = <<VOCE_MQ, VOCE_CORPO>>
    /\ preventivo.posizioni[2].voci = <<VOCE_ALTRO, VOCE_ALTRO>>
    /\ Len(elements) = 6 + 4 + 14

----------------------------------------------------------------------------
(* Claims about the table of one position, under Spec *)

\* the loop body of position i has run, to its end or to its exception
Elaborata(i) == i < i_pos \/ (i = i_pos /\ errore = "TypeError")

\* the 0-based row a style command's row index denotes in a table of
\* len rows
Riga(r, len) == IF r < 0 THEN len + r ELSE r

\* the entries of a style that span cells of the label column
SpanEtichetta(stile) ==
    {k \in 1..Len(stile) :
        /\ stile[k] # None
        /\ stile[k][1] = "SPAN"
        /\ stile[k][2][1] = 0}

\* the table of position i is in elements and is as the claim says
TabellaConforme(i) ==
    LET pos == preventivo.posizioni[i]
        n == Len(pos.voci)
        tab == {e \in Indici({"Table"}) : elements[e].dati[1] = i}
    IN  /\ Cardinality(tab) = 1
        /\ \A e \in tab :
              LET righe == elements[e].dati[2]
                  stile == elements[e].dati[3]
              IN  /\ Len(righe) = n + 2
                  /\ righe[1].tipo = "intestazione"
                  /\ \A j \in 1..n : righe[j + 1].tipo = "voce"
                  /\ righe[n + 2].tipo = "totale"
                  /\ righe[2].pos_num = Some(pos.numero)
                  /\ \A r \in (1..(n + 2)) \ {2} : IsNone(righe[r].pos_num)
                  /\ \A k \in 1..Len(stile) : stile[k] # None
                  /\ (n > 1) <=> (SpanEtichetta(stile) # {})
                  /\ \A k \in SpanEtichetta(stile) :
                        /\ stile[k][2] = <<0, 1>>
                        /\ stile[k][3][1] = 0
                        /\ Riga(stile[k][3][2], n + 2) = n

\* C13: every position with n >= 1 line items gets its table: n + 2 rows
\* (header, n line rows, totals row), the position number in the first
\* line row only, a style whose entries are all well-formed commands and
\* which spans the label column over line rows 1..n exactly when n > 1;
\* with n = 1 there is no label span and the table is still produced.
C13_TabellaPosizione ==
    \A i \in 1..Len(preventivo.posizioni) :
        (Elaborata(i) /\ Len(preventivo.posizioni[i].voci) >= 1) => TabellaConforme(i)

\* the same for the positions of two or more line items only
C13_PiuVoci ==
    \A i \in 1..Len(preventivo.posizioni) :
        (Elaborata(i) /\ Len(preventivo.posizioni[i].voci) > 1) => TabellaConforme(i)

====
